---- MODULE Spec2Model ----
(***************************************************************************)
(* Model of the optimisation runs of src/app.py                            *)
(* (process_text_optimization, process_image_optimization) and of the     *)
(* helpers of src/core/util.py they call.  A run is a chain of suspension  *)
(* points (await page..., await Runner.run, requests...); the model has    *)
(* one action per point.  External collaborators (the two agents, the      *)
(* network, the image service, the file host) answer nondeterministically. *)
(* URLs, texts and paths are sequences of string tokens.                   *)
(***************************************************************************)
EXTENDS Integers, Sequences, FiniteSets, TLC

\* ------------------------------------------------------------------ bounds
MaxRuns == 2
MaxIter == 3
MaxPrefix == 3
MaxBulk == 11
MaxPath == 2
MaxLabels == 2

\* ------------------------------------------------- constants of the program
InventoryLimit == 10
MinDimension == 300
InitialViewportHeight == 800
InitialViewportWidth == 1920

\* ------------------------------------------------------- sequence helpers
Last(s) == s[Len(s)]

IsPrefix(s, t) == Len(s) <= Len(t) /\ SubSeq(t, 1, Len(s)) = s

Min(a, b) == IF a <= b THEN a ELSE b

RECURSIVE RemoveFirst(_, _)
\* str.replace(tok, '') of JavaScript: only the first occurrence goes
RemoveFirst(s, tok) ==
    IF s = <<>> THEN <<>>
    ELSE IF Head(s) = tok THEN Tail(s)
    ELSE <<Head(s)>> \o RemoveFirst(Tail(s), tok)

\* str.replace(tok, '') of Python: every occurrence goes
RemoveAll(s, tok) == SelectSeq(s, LAMBDA x : x # tok)

RECURSIVE IndexOfFrom(_, _, _)
IndexOfFrom(s, tok, i) ==
    IF i > Len(s) THEN 0
    ELSE IF s[i] = tok THEN i
    ELSE IndexOfFrom(s, tok, i + 1)

\* ------------------------------------------------------------------- URLs
\* A URL is <<scheme, host tokens..., "/", path tokens...>>.
PageUrl == <<"https://", "www.", "shop.example.com">>

\* urlparse(url).netloc
Netloc(url) ==
    LET slash == IndexOfFrom(url, "/", 2)
    IN  IF slash = 0 THEN SubSeq(url, 2, Len(url))
        ELSE SubSeq(url, 2, slash - 1)

\* urljoin(url, src): a src starting with "/" is resolved against the origin
UrlJoin(url, src) ==
    IF src # <<>> /\ Head(src) = "/"
    THEN <<Head(url)>> \o Netloc(url) \o src
    ELSE src

\* get_site_folder: sites/<netloc without www.>
get_site_folder(url) == <<"sites">> \o RemoveAll(Netloc(url), "www.")

\* sites_dir of the image run: sites/<netloc without www.>/img
ImageSitesDir(url) == <<"sites">> \o RemoveAll(Netloc(url), "www.") \o <<"img">>

TextLogPath(url) == get_site_folder(url) \o <<"log.txt">>

ImageLogPath(url) == ImageSitesDir(url) \o <<"log.txt">>

ScriptPath(url) == get_site_folder(url) \o <<"script.js">>

\* the screenshot after the replacement saved over the script of the site
AfterReplacementPath_overScript(url) == ScriptPath(url)

AfterReplacementPath(url) == ImageSitesDir(url) \o <<"after_replacement.png">>

\* ------------------------------------------------------------ file system
\* files maps each existing path to its content.
ReadLog(fs, path) == IF path \in DOMAIN fs THEN fs[path] ELSE <<>>

\* past changes read from the log of the img folder
get_past_changes_imgLog(fs, site_folder) ==
    ReadLog(fs, site_folder \o <<"img", "log.txt">>)

\* get_past_changes: the content of the log, "" when the file is absent
get_past_changes(fs, site_folder) == ReadLog(fs, site_folder \o <<"log.txt">>)

\* open(path, "w").write(content)
WriteFile(fs, path, content) ==
    [p \in (DOMAIN fs) \cup {path} |-> IF p = path THEN content ELSE fs[p]]

\* the log opened with "w" instead of "a"
AppendLine_truncating(fs, path, description) ==
    WriteFile(fs, path, <<description>>)

\* open(path, "a").write("- <description>\n")
AppendLine(fs, path, description) ==
    WriteFile(fs, path, Append(ReadLog(fs, path), description))

\* ------------------------------------------------------- agents' answers
\* JSOutput values the coder agent may return (script, change_description)
Scripts == {"setH1", "setBtn", "appendH1", "throw"}

JSOutputs ==
    { [script |-> "setH1",    change_description |-> <<"headline", "rewritten">>],
      [script |-> "setBtn",   change_description |-> <<"button", "rewritten">>],
      [script |-> "appendH1", change_description |-> <<"headline", "emphasised">>],
      [script |-> "throw",    change_description |-> <<"broken", "script">>] }

NoJSOutput == [script |-> "", change_description |-> <<>>]

\* Evaluation values an evaluator agent may return (feedback, score)
Evaluations ==
    { [score |-> "pass", feedback |-> <<"looks", "fine">>],
      [score |-> "fail", feedback |-> <<"text", "clipped">>] }

NoEvaluation == [score |-> "", feedback |-> <<>>]

\* --------------------------------------------------------- the live page
\* text content of the header and of the button of the page as served
OriginalText == [h1 |-> <<"Welcome">>, btn |-> <<"Buy">>]

\* page.evaluate(script): the effect of each script on the text of the page
ExecScript(script, t) ==
    CASE script = "setH1"    -> [t EXCEPT !.h1 = <<"Save", "today">>]
      [] script = "setBtn"   -> [t EXCEPT !.btn = <<"Order", "now">>]
      [] script = "appendH1" -> [t EXCEPT !.h1 = @ \o <<"!">>]
      [] OTHER               -> t

\* page.evaluate(script) raises when the script throws
ScriptRaises(script) == script = "throw"

\* int(viewport_height * 1.1) of take_viewport_screenshot
GrowViewport(h) == (h * 11) \div 10

\* a screenshot that shows the page as it was loaded
Screenshot_stale(t, im, vh) == [text |-> OriginalText, imgs |-> im, viewport |-> vh]

\* a screenshot shows the page: texts, image sources, viewport
Screenshot(t, im, vh) == [text |-> t, imgs |-> im, viewport |-> vh]

NoScreenshot == [text |-> [h1 |-> <<>>, btn |-> <<>>], imgs |-> <<>>, viewport |-> 0]

\* a loop that accepts whatever the evaluator answers
Accepts_any(result) == result.score \in {"pass", "fail"}

\* if result.score == "pass":
Accepts(result) == result.score = "pass"

\* a pass branch that runs the script of the first iteration again
ScriptToRerun_first(cr, cs) == cs[1].script

\* the script the pass branch executes once more:
\* await page.evaluate(coder_result.final_output.script), the result cr of
\* the current iteration, whatever the earlier candidates cs were
ScriptToRerun(cr, cs) == cr.script

\* a history restarted from the new output alone
to_input_list_fresh(items, out) ==
    << [role |-> "assistant", type |-> "output", content |-> out] >>

\* coder_result.to_input_list(): the input of the call followed by the
\* output the call produced
to_input_list(items, out) ==
    Append(items, [role |-> "assistant", type |-> "output", content |-> out])

\* the feedback written over the last message of the history
AddFeedback_overLast(items, fb) ==
    [items EXCEPT ![Len(items)] =
        [role |-> "user", type |-> "feedback", content |-> fb]]

\* input_items.append({"content": f"Feedback: {feedback}", "role": "user"})
AddFeedback(items, fb) ==
    Append(items, [role |-> "user", type |-> "feedback", content |-> fb])

\* a text loop that gives up after its second iteration
LoopGoesOn_capped(n) == n < 2

\* while True: the condition of the loop after n iterations
LoopGoesOn(n) == TRUE

\* a text loop left after a fail verdict
TextLoopHead_once == "done"

\* while True: of the text run, an iteration starts at the coder call
TextLoopHead == "t_propose"

\* a retry that goes back to the image specialist
ImageLoopHead_reselect == "i_propose"

\* while True: of the image run, an iteration starts at the fetch of the
\* selected image; the image specialist was called before the loop
ImageLoopHead == "i_fetch"

\* a handler that goes on with the next iteration
OnLoopException_continue == "i_fetch"

\* except Exception as e: print(...); break -- both handlers of the image
\* loop leave the loop for the statements after it
OnLoopException == "done"

\* an agent error after which the loop goes round again
AfterAgentError_retry(k) == IF k = "text" THEN TextLoopHead ELSE ImageLoopHead

\* where a run of kind k stands after Runner.run raised inside the loop: a
\* text run has no handler and the exception leaves the function, an image
\* run catches it and breaks out of the loop to the return statement
AfterAgentError(k) == IF k = "text" THEN "aborted" ELSE "done"

\* ------------------------------------------------------- <img> elements
\* An <img> of the served page: its src attribute, its natural size and the
\* status a HEAD request on its absolute URL gets (0: the request fails).
Hero   == [src |-> <<"https://", "www.", "shop.example.com", "/", "hero", ".png">>,
           width |-> 1000, height |-> 800, head |-> 200]
Promo  == [src |-> <<"/", "promo", ".png">>, width |-> 500, height |-> 500, head |-> 200]
Icon   == [src |-> <<"/", "icon", ".png">>, width |-> 200, height |-> 200, head |-> 200]
Edge   == [src |-> <<"/", "edge", ".png">>, width |-> 300, height |-> 301, head |-> 200]
Logo   == [src |-> <<"/", "logo", ".svg">>, width |-> 500, height |-> 500, head |-> 200]
Badge  == [src |-> <<"/", "badge", ".SVG">>, width |-> 600, height |-> 600, head |-> 200]
Gone   == [src |-> <<"/", "gone", ".png">>, width |-> 700, height |-> 700, head |-> 404]
Down   == [src |-> <<"/", "down", ".png">>, width |-> 400, height |-> 400, head |-> 0]
Hosted == [src |-> <<"https://", "raw.githubusercontent.com", "/", "old", ".png">>,
           width |-> 400, height |-> 400, head |-> 200]

\* the pages the runs are made on: no image, one image, the same image
\* twice, an image next to one already hosted on raw.githubusercontent.com,
\* a hosted image alone, an image too small for the inventory
Pages ==
    { <<>>, <<Hero>>, <<Hero, Hero>>, <<Hero, Hosted>>, <<Hosted>>, <<Icon>> }

AllImgs == {Hero, Promo, Icon, Edge, Logo, Badge, Gone, Down, Hosted}

BulkImgs == {Promo}

\* str.lower() on the last token of a src
Lower(tok) == IF tok = ".SVG" THEN ".svg" ELSE tok

\* src.lower().endswith('.svg')
EndsWithSvg(src) == src # <<>> /\ Lower(Last(src)) = ".svg"

\* is_image_accessible: the HEAD request answers 200
is_image_accessible(img) == img.head = 200

\* the size test written with >= instead of >
Eligible_atLeast(img) ==
    /\ img.src # <<>>
    /\ ~EndsWithSvg(img.src)
    /\ is_image_accessible(img)
    /\ img.width >= MinDimension
    /\ img.height >= MinDimension

\* the test of the collection loop: not SVG, accessible, larger than 300x300
Eligible(img) ==
    /\ img.src # <<>>
    /\ ~EndsWithSvg(img.src)
    /\ is_image_accessible(img)
    /\ img.width > MinDimension
    /\ img.height > MinDimension

\* the entry appended to image_list
Entry(img) ==
    [src |-> UrlJoin(PageUrl, img.src), width |-> img.width,
     height |-> img.height, size |-> img.width * img.height]

RECURSIVE Collect(_)
\* the loop over page.query_selector_all('img')
Collect(page) ==
    IF page = <<>> THEN <<>>
    ELSE IF Eligible(Head(page))
         THEN <<Entry(Head(page))>> \o Collect(Tail(page))
         ELSE Collect(Tail(page))

RECURSIVE InsertDesc(_, _)
\* x goes behind every entry that is at least as large (the sort is stable)
InsertDesc(sorted, x) ==
    IF sorted = <<>> THEN <<x>>
    ELSE IF Head(sorted).size >= x.size
         THEN <<Head(sorted)>> \o InsertDesc(Tail(sorted), x)
         ELSE <<x>> \o sorted

RECURSIVE SortBySizeDesc(_)
\* image_list.sort(key=lambda x: x['size'], reverse=True)
SortBySizeDesc(list) ==
    IF list = <<>> THEN <<>>
    ELSE InsertDesc(SortBySizeDesc(SubSeq(list, 1, Len(list) - 1)), Last(list))

\* image_list[:10]
Truncate(list) == SubSeq(list, 1, Min(Len(list), InventoryLimit))

\* the inventory handed to the image specialist
Inventory(page) == Truncate(SortBySizeDesc(Collect(page)))

\* ImageChange values the image specialist may return for an inventory
InventedUrl == <<"https://", "shop.example.com", "/", "missing", ".png">>

ImageChanges(inventory) ==
    { [image_url |-> u, change_description |-> <<"warmer", "photo">>] :
        u \in {inventory[i].src : i \in 1..Len(inventory)} \cup {InventedUrl} }

NoImageChange == [image_url |-> <<>>, change_description |-> <<>>]

\* print(f"Warning: ... timeout - {e}"): a wait condition of the browser
\* was not met in time
WaitTimeout == "wait_timeout"

\* Python None, which an f-string renders as the text None
NoneUrl == <<"None">>

Unbound == <<>>

\* uuid.uuid4(): the n-th fresh name
UuidName(n) == "uuid" \o ToString(n)

\* upload_to_github: the raw URL of the uploaded file, or None
RawUrl(name) == <<"https://", "raw.githubusercontent.com", "/", name, ".png">>

\* an upload that takes only 201 Created for a success
upload_to_github_created(name, token_set, put_status) ==
    IF token_set /\ put_status = 201 THEN RawUrl(name) ELSE NoneUrl

upload_to_github(name, token_set, put_status) ==
    IF ~token_set THEN NoneUrl
    ELSE IF put_status \in {200, 201} THEN RawUrl(name)
    ELSE NoneUrl

\* new URL(x, window.location.href).href
Href(u) ==
    IF u # <<>> /\ Head(u) \in {"https://", "http://"} THEN u
    ELSE <<Head(PageUrl)>> \o Netloc(PageUrl) \o <<"/">> \o u

\* url.replace('www.', '') of the replacement script
NormalizeUrl(u) == RemoveFirst(u, "www.")

RECURSIVE FirstMatch(_, _, _)
\* index of the first <img> whose normalized src equals the normalized
\* target, 0 when there is none
FirstMatch(im, target, i) ==
    IF i > Len(im) THEN 0
    ELSE IF NormalizeUrl(Href(im[i])) = NormalizeUrl(Href(target)) THEN i
    ELSE FirstMatch(im, target, i + 1)

\* js_code without its break: every match is rewritten
ReplaceImage_all(im, target, new_url) ==
    [i \in 1..Len(im) |->
        IF NormalizeUrl(Href(im[i])) = NormalizeUrl(Href(target))
        THEN Href(new_url) ELSE im[i]]

\* js_code: img.src = new_image_url on the first match, then break
ReplaceImage(im, target, new_url) ==
    LET i == FirstMatch(im, target, 1)
    IN  IF i = 0 THEN im ELSE [im EXCEPT ![i] = Href(new_url)]

\* img[src*="raw.githubusercontent.com"] selects something
HasHostedImg(im) ==
    \E i \in 1..Len(im) : \E k \in 1..Len(im[i]) : im[i][k] = "raw.githubusercontent.com"

\* only a missing response breaks the loop
FetchOk_anyResponse(status) == status # 0

\* status_code != 200 breaks the loop
FetchOk(status) == status = 200

\* ------------------------------------------------------------------ state
VARIABLES
    site,            \* the <img> elements of the page as the server sends it
    files,           \* the sites/ directory: path -> content
    runs,            \* number of runs started so far
    kind,            \* "text" or "image": the run in progress (or the last one)
    pc,              \* position of the run
    text,            \* live page: text of h1 and of the button
    imgs,            \* live page: src of each <img>, in document order
    viewport,        \* live page: viewport height
    input_items,     \* conversation history of the run
    past_changes,    \* text run: what get_past_changes returned
    coder_result,    \* text run: last JSOutput
    result,          \* last Evaluation
    final_screenshot,\* text run: final_screenshot / image run: screenshot_base64
    outcome,         \* what the caller of the run observes
    events,          \* history: the steps of the run, in order
    cands,           \* history: every proposer output of the run
    execs,           \* history: scripts executed on the page since it loaded
    logAtStart,      \* history: content of the text Change Log at run start
    image_list,      \* image run: the inventory
    image_specialist_result, \* image run: the ImageChange
    new_image_url,   \* image run: Unbound, NoneUrl or the uploaded URL
    uuids,           \* number of uuid4() names drawn so far
    tempfiles,       \* temporary PNG files that exist
    accepted,        \* history: descriptions of the accepted runs, in run order
    warning,         \* the warning the last step printed, "none" without one
    writers,         \* concurrent log writes: per writer its position, line, offset
    call             \* a helper function called on its own: name, arguments, result

vars == <<site, files, runs, kind, pc, text, imgs, viewport, input_items,
          past_changes, coder_result, result, final_screenshot, outcome,
          events, cands, execs, logAtStart, image_list,
          image_specialist_result, new_image_url, uuids, tempfiles, accepted,
          warning, writers, call>>

imageLocals == <<image_list, image_specialist_result, new_image_url>>

NoOutcome == [ret |-> "pending"]

\* no helper function is being called on its own
NoCall == [fn |-> "none"]

CountOf(s, op) == Cardinality({i \in 1..Len(s) : s[i] = op})

\* ---------------------------------------------------------------- text run
\* process_text_optimization up to the loop: open the page, site folder,
\* waits, enlarge viewport, first screenshot, past changes, first messages
TextStart ==
    /\ pc \in {"idle", "done", "aborted"}
    /\ UNCHANGED <<writers, call>>
    /\ warning' \in {"none", WaitTimeout}
    /\ runs < MaxRuns
    /\ runs' = runs + 1
    /\ kind' = "text"
    /\ text' = OriginalText
    /\ imgs' = [i \in 1..Len(site) |-> UrlJoin(PageUrl, site[i].src)]
    /\ viewport' = GrowViewport(GrowViewport(InitialViewportHeight))
    /\ past_changes' = get_past_changes(files, get_site_folder(PageUrl))
    /\ input_items' =
          << [role |-> "user", type |-> "context", content |-> past_changes'],
             [role |-> "user", type |-> "image",
              content |-> Screenshot(text', imgs', viewport')] >>
    /\ coder_result' = NoJSOutput
    /\ result' = NoEvaluation
    /\ final_screenshot' = NoScreenshot
    /\ outcome' = NoOutcome
    /\ events' = <<>>
    /\ cands' = <<>>
    /\ execs' = <<>>
    /\ logAtStart' = ReadLog(files, TextLogPath(PageUrl))
    /\ pc' = "t_propose"
    /\ image_list' = <<>>
    /\ image_specialist_result' = NoImageChange
    /\ new_image_url' = Unbound
    /\ UNCHANGED <<site, files, uuids, tempfiles, accepted>>

\* coder_result = await Runner.run(coder, input_items); script.js written;
\* input_items = coder_result.to_input_list()
TextPropose ==
    /\ pc = "t_propose"
    /\ UNCHANGED <<writers, call>>
    /\ warning' = "none"
    /\ \E out \in JSOutputs, parsed \in BOOLEAN :
         IF ~parsed
         THEN /\ pc' = AfterAgentError(kind)
              /\ outcome' = [ret |-> "exception"]
              /\ events' = Append(events, "propose_raise")
              /\ UNCHANGED <<files, coder_result, input_items, cands>>
         ELSE /\ coder_result' = out
              /\ files' = WriteFile(files, ScriptPath(PageUrl), <<out.script>>)
              /\ input_items' = to_input_list(input_items, out)
              /\ cands' = Append(cands, out)
              /\ events' = Append(events, "propose")
              /\ pc' = "t_apply"
              /\ UNCHANGED outcome
    /\ UNCHANGED <<imageLocals, uuids, tempfiles, accepted, site, runs, kind, text, imgs, viewport, past_changes, result,
                   final_screenshot, execs, logAtStart>>

\* await page.evaluate(coder_result.final_output.script)
TextApply ==
    /\ pc = "t_apply"
    /\ UNCHANGED <<writers, call>>
    /\ warning' = "none"
    /\ IF ScriptRaises(coder_result.script)
       THEN /\ pc' = "aborted"
            /\ outcome' = [ret |-> "exception"]
            /\ events' = Append(events, "apply_raise")
            /\ UNCHANGED <<text, execs>>
       ELSE /\ text' = ExecScript(coder_result.script, text)
            /\ execs' = Append(execs, coder_result.script)
            /\ events' = Append(events, "apply")
            /\ pc' = "t_observe"
            /\ UNCHANGED outcome
    /\ UNCHANGED <<imageLocals, uuids, tempfiles, accepted, site, files, runs, kind, imgs, viewport, input_items,
                   past_changes, coder_result, result, final_screenshot,
                   cands, logAtStart>>

\* base64_image = await take_viewport_screenshot(page); appended to the history
TextObserve ==
    /\ pc = "t_observe"
    /\ UNCHANGED <<writers, call>>
    /\ warning' = "none"
    /\ viewport' = GrowViewport(viewport)
    /\ input_items' = Append(input_items,
          [role |-> "user", type |-> "image",
           content |-> Screenshot(text, imgs, viewport')])
    /\ events' = Append(events, "observe")
    /\ pc' = "t_evaluate"
    /\ UNCHANGED <<imageLocals, uuids, tempfiles, accepted, site, files, runs, kind, text, imgs, past_changes,
                   coder_result, result, final_screenshot, outcome, cands,
                   execs, logAtStart>>

\* evaluator_result = await Runner.run(evaluator, input_items); on "fail"
\* the feedback is appended and the loop goes round
TextEvaluate ==
    /\ pc = "t_evaluate"
    /\ UNCHANGED <<writers, call>>
    /\ warning' = "none"
    /\ \E out \in Evaluations, parsed \in BOOLEAN :
         IF ~parsed
         THEN /\ pc' = AfterAgentError(kind)
              /\ outcome' = [ret |-> "exception"]
              /\ events' = Append(events, "evaluate_raise")
              /\ UNCHANGED <<result, input_items>>
         ELSE /\ out.score = "fail" => CountOf(events, "fail") + 1 < MaxIter
              /\ result' = out
              /\ events' = Append(events, out.score)
              /\ IF Accepts(out)
                 THEN /\ pc' = "t_accept"
                      /\ UNCHANGED <<input_items, outcome>>
                 ELSE /\ input_items' = AddFeedback(input_items, out.feedback)
                      /\ IF LoopGoesOn(CountOf(events', "fail"))
                         THEN /\ pc' = TextLoopHead
                              /\ UNCHANGED outcome
                         ELSE /\ pc' = "done"
                              /\ outcome' =
                                    [ret |-> "dict",
                                     description |-> coder_result.change_description,
                                     script |-> coder_result.script,
                                     evaluator_response |-> out.feedback,
                                     screenshot |-> final_screenshot]
    /\ UNCHANGED <<imageLocals, uuids, tempfiles, accepted, site, files, runs, kind, text, imgs, viewport, past_changes,
                   coder_result, final_screenshot, cands, execs, logAtStart>>

\* the pass branch: the script is run once more, the final screenshot is
\* taken, the description is appended to log.txt, the browser is closed and
\* the result returned
TextAccept ==
    /\ pc = "t_accept"
    /\ UNCHANGED <<writers, call>>
    /\ warning' = "none"
    /\ text' = ExecScript(ScriptToRerun(coder_result, cands), text)
    /\ execs' = Append(execs, ScriptToRerun(coder_result, cands))
    /\ viewport' = GrowViewport(viewport)
    /\ final_screenshot' = Screenshot(text', imgs, viewport')
    /\ files' = AppendLine(files, TextLogPath(PageUrl),
                           coder_result.change_description)
    /\ events' = events \o <<"apply", "observe", "log">>
    /\ outcome' = [ret |-> "dict",
                   description |-> coder_result.change_description,
                   script |-> coder_result.script,
                   evaluator_response |-> result.feedback,
                   screenshot |-> final_screenshot']
    /\ accepted' = Append(accepted, coder_result.change_description)
    /\ pc' = "done"
    /\ UNCHANGED <<imageLocals, uuids, tempfiles, site, runs, kind, imgs, input_items, past_changes,
                   coder_result, result, cands, logAtStart>>

\* --------------------------------------------------------------- image run
\* a run that goes to the image specialist whatever the inventory holds
AfterInventory_always(list) == "i_propose"

\* if len(image_list) == 0: print, await browser.close(), return None
AfterInventory(list) == IF Len(list) = 0 THEN "done" ELSE "i_propose"

\* process_image_optimization up to the image specialist: open the page,
\* collect, sort and truncate the images; an empty inventory ends the run
ImageStart ==
    /\ pc \in {"idle", "done", "aborted"}
    /\ UNCHANGED <<writers, call>>
    /\ warning' = "none"
    /\ runs < MaxRuns
    /\ runs' = runs + 1
    /\ kind' = "image"
    /\ text' = OriginalText
    /\ imgs' = [i \in 1..Len(site) |-> UrlJoin(PageUrl, site[i].src)]
    /\ viewport' = InitialViewportHeight
    /\ image_list' = Inventory(site)
    /\ image_specialist_result' = NoImageChange
    /\ new_image_url' = Unbound
    /\ input_items' = <<>>
    /\ past_changes' = <<>>
    /\ coder_result' = NoJSOutput
    /\ result' = NoEvaluation
    /\ cands' = <<>>
    /\ execs' = <<>>
    /\ logAtStart' = ReadLog(files, TextLogPath(PageUrl))
    /\ IF AfterInventory(image_list') = "done"
       THEN /\ pc' = "done"
            /\ outcome' = [ret |-> "none"]
            /\ events' = <<"no_images">>
            /\ final_screenshot' = NoScreenshot
       ELSE /\ pc' = "i_propose"
            /\ outcome' = NoOutcome
            /\ events' = <<>>
            /\ final_screenshot' = Screenshot(text', imgs', viewport')
    /\ UNCHANGED <<site, files, uuids, tempfiles, accepted>>

\* image_specialist_result = await Runner.run(image_specialist, ...); the
\* img folder is created and the evaluator's first message prepared
ImagePropose ==
    /\ pc = "i_propose"
    /\ UNCHANGED <<writers, call>>
    /\ warning' = "none"
    /\ \E out \in ImageChanges(image_list), parsed \in BOOLEAN :
         IF ~parsed
         THEN /\ pc' = "aborted"
              /\ outcome' = [ret |-> "exception"]
              /\ events' = Append(events, "propose_raise")
              /\ UNCHANGED <<image_specialist_result, input_items, cands>>
         ELSE /\ image_specialist_result' = out
              /\ input_items' =
                    << [role |-> "user", type |-> "context",
                        content |-> out.change_description] >>
              /\ cands' = Append(cands, out)
              /\ events' = Append(events, "propose")
              /\ pc' = "i_fetch"
              /\ UNCHANGED outcome
    /\ UNCHANGED <<accepted, site, files, runs, kind, text, imgs, viewport, past_changes,
                   coder_result, result, final_screenshot, execs, logAtStart,
                   image_list, new_image_url, uuids, tempfiles>>

\* the dictionary the image run returns after the loop
ImageReturn(nurl, shot, js_bound, res) ==
    [ret |-> "dict",
     description |-> image_specialist_result.change_description,
     original_image_url |-> image_specialist_result.image_url,
     new_image_url |-> IF nurl = Unbound THEN NoneUrl ELSE nurl,
     screenshot |-> shot,
     js_code |-> js_bound,
     evaluator_response |-> res.feedback]

JsBound == \E i \in 1..Len(events) : events[i] = "apply"

\* history: how requests.get(image_url) ended
FetchEvent(status) ==
    IF status = 200 THEN "fetch_200"
    ELSE IF status = 0 THEN "fetch_raise" ELSE "fetch_404"

\* response = requests.get(image_url); anything but 200 breaks the loop
ImageFetch ==
    /\ pc = "i_fetch"
    /\ UNCHANGED <<writers, call>>
    /\ warning' = "none"
    /\ \E status \in {200, 404, 0} :
         /\ IF FetchOk(status)
            THEN /\ pc' = "i_generate"
                 /\ events' = Append(events, FetchEvent(status))
                 /\ UNCHANGED outcome
            ELSE /\ pc' = "done"
                 /\ events' = Append(events, FetchEvent(status))
                 /\ outcome' = ImageReturn(new_image_url, final_screenshot,
                                           JsBound, result)
    /\ UNCHANGED <<accepted, site, files, runs, kind, text, imgs, viewport, input_items,
                   past_changes, coder_result, result, final_screenshot, cands,
                   execs, logAtStart, imageLocals, uuids, tempfiles>>

\* Image.open, the temporary PNG, client.images.edit, os.unlink, and the
\* generated bytes written to sites/<site>/img/<uuid>.png
ImageGenerate ==
    /\ pc = "i_generate"
    /\ UNCHANGED <<writers, call>>
    /\ warning' = "none"
    /\ \E how \in {"ok", "open_raise", "edit_raise"} :
         /\ IF how = "ok"
            THEN /\ uuids' = uuids + 1
                 /\ files' = WriteFile(files,
                        ImageSitesDir(PageUrl) \o <<UuidName(uuids')>>, <<"png">>)
                 /\ pc' = "i_upload"
                 /\ events' = Append(events, "generate")
                 /\ UNCHANGED <<outcome, tempfiles>>
            ELSE /\ tempfiles' = IF how = "edit_raise" THEN tempfiles + 1
                                 ELSE tempfiles
                 /\ pc' = OnLoopException
                 /\ events' = Append(events, "generate_raise")
                 /\ outcome' = ImageReturn(new_image_url, final_screenshot,
                                           JsBound, result)
                 /\ UNCHANGED <<files, uuids>>
    /\ UNCHANGED <<accepted, site, runs, kind, text, imgs, viewport, input_items,
                   past_changes, coder_result, result, final_screenshot, cands,
                   execs, logAtStart, imageLocals>>

\* new_image_url = upload_to_github(filename, repo_name)
ImageUpload ==
    /\ pc = "i_upload"
    /\ UNCHANGED <<writers, call>>
    /\ warning' = "none"
    /\ \E token_set \in BOOLEAN, put_status \in {201, 422} :
         new_image_url' = upload_to_github(UuidName(uuids), token_set, put_status)
    /\ events' = Append(events, "upload")
    /\ pc' = "i_apply"
    /\ UNCHANGED <<accepted, site, files, runs, kind, text, imgs, viewport, input_items,
                   past_changes, coder_result, result, final_screenshot,
                   outcome, cands, execs, logAtStart, image_list,
                   image_specialist_result, uuids, tempfiles>>

\* await page.evaluate(js_code)
ImageApply ==
    /\ pc = "i_apply"
    /\ UNCHANGED <<writers, call>>
    /\ warning' = "none"
    /\ imgs' = ReplaceImage(imgs, image_specialist_result.image_url, new_image_url)
    /\ execs' = Append(execs, new_image_url)
    /\ events' = Append(events, "apply")
    /\ pc' = "i_wait"
    /\ UNCHANGED <<accepted, site, files, runs, kind, text, viewport, input_items,
                   past_changes, coder_result, result, final_screenshot,
                   outcome, cands, logAtStart, imageLocals, uuids, tempfiles>>

\* the waits (network idle, hosted image visible, image complete), then the
\* full-page screenshot, saved as after_replacement.png and appended to the
\* history; a timeout or error breaks the loop
ImageObserve ==
    /\ pc = "i_wait"
    /\ UNCHANGED <<writers, call>>
    /\ \E ok \in BOOLEAN :
         IF ok /\ HasHostedImg(imgs)
         THEN /\ final_screenshot' = Screenshot(text, imgs, viewport)
              /\ files' = WriteFile(files, AfterReplacementPath(PageUrl),
                                    <<final_screenshot'>>)
              /\ input_items' = Append(input_items,
                    [role |-> "user", type |-> "image",
                     content |-> final_screenshot'])
              /\ events' = Append(events, "observe")
              /\ pc' = "i_evaluate"
              /\ warning' = "none"
              /\ UNCHANGED outcome
         ELSE /\ pc' = OnLoopException
              /\ warning' = WaitTimeout
              /\ events' = Append(events, "wait_raise")
              /\ outcome' = ImageReturn(new_image_url, final_screenshot,
                                        TRUE, result)
              /\ UNCHANGED <<files, input_items, final_screenshot>>
    /\ UNCHANGED <<accepted, site, runs, kind, text, imgs, viewport, past_changes,
                   coder_result, result, cands, execs, logAtStart, imageLocals,
                   uuids, tempfiles>>

\* evaluator_result = await Runner.run(image_evaluator, input_items): on
\* "pass" the description is appended to img/log.txt and the loop ends, on
\* "fail" the feedback is appended and the loop goes round
ImageEvaluate ==
    /\ pc = "i_evaluate"
    /\ UNCHANGED <<writers, call>>
    /\ warning' = "none"
    /\ \E out \in Evaluations, parsed \in BOOLEAN :
         IF ~parsed
         THEN /\ pc' = AfterAgentError(kind)
              /\ events' = Append(events, "evaluate_raise")
              /\ outcome' = ImageReturn(new_image_url, final_screenshot,
                                        TRUE, result)
              /\ UNCHANGED <<result, input_items, files, accepted>>
         ELSE /\ out.score = "fail" => CountOf(events, "fail") + 1 < MaxIter
              /\ result' = out
              /\ IF Accepts(out)
                 THEN /\ files' = AppendLine(files, ImageLogPath(PageUrl),
                            image_specialist_result.change_description)
                      /\ accepted' = Append(accepted,
                            image_specialist_result.change_description)
                      /\ events' = events \o <<out.score, "log">>
                      /\ pc' = "done"
                      /\ outcome' = ImageReturn(new_image_url, final_screenshot,
                                                TRUE, out)
                      /\ UNCHANGED input_items
                 ELSE /\ input_items' = AddFeedback(input_items, out.feedback)
                      /\ events' = Append(events, out.score)
                      /\ pc' = ImageLoopHead
                      /\ UNCHANGED <<files, outcome, accepted>>
    /\ UNCHANGED <<site, runs, kind, text, imgs, viewport, past_changes,
                   coder_result, final_screenshot, cands, execs, logAtStart,
                   imageLocals, uuids, tempfiles>>

RECURSIVE SeqsUpTo(_, _)
\* the sequences over S of length at most n
SeqsUpTo(S, n) ==
    IF n = 0 THEN {<<>>}
    ELSE LET shorter == SeqsUpTo(S, n - 1)
         IN  shorter \cup {Append(s, x) : s \in shorter, x \in S}

\* ------------------------------------ two runs writing their log line at once
\* Two runs (Streamlit serves every session on a thread of its own) have
\* reached the pass branch and execute
\*     with open(f"{folder}/log.txt", "a") as f: f.write(f"- {description}\n")
\* with no lock around it. open() creates the file, write() fills the buffer
\* of f, and leaving the with block flushes the buffer to the file. Whether
\* that flush is one indivisible append is left to the platform: with
\* O_APPEND on a local POSIX file system it is, elsewhere the end of the file
\* is looked up first and the bytes are written at that offset afterwards.
Writers == {1, 2}

\* descriptions of different lengths, in words
WriterDescriptions ==
    { <<"headline", "rewritten">>, <<"cta", "made", "much", "shorter">> }

RECURSIVE Bytes(_)
\* the content of a log file: every line followed by a newline
Bytes(lines) ==
    IF lines = <<>> THEN <<>>
    ELSE Head(lines) \o <<"\n">> \o Bytes(Tail(lines))

RECURSIVE SplitLines(_, _)
\* f.read() seen line by line; cur is the line being read
SplitLines(bytes, cur) ==
    IF bytes = <<>> THEN (IF cur = <<>> THEN <<>> ELSE <<cur>>)
    ELSE IF Head(bytes) = "\n" THEN <<cur>> \o SplitLines(Tail(bytes), <<>>)
    ELSE SplitLines(Tail(bytes), Append(cur, Head(bytes)))

\* write(fd, data) at offset off: the bytes there are overwritten
WriteAt(bytes, off, data) ==
    SubSeq(bytes, 1, off) \o data
        \o SubSeq(bytes, off + Len(data) + 1, Len(bytes))

LogPathOf(k) == IF k = "text" THEN TextLogPath(PageUrl) ELSE ImageLogPath(PageUrl)

\* no run was started: every variable of a run has its value of Init
NoRun ==
    /\ site = <<>>
    /\ runs = 0
    /\ kind = "none"
    /\ pc = "idle"
    /\ warning = "none"
    /\ text = OriginalText
    /\ imgs = <<>>
    /\ viewport = InitialViewportHeight
    /\ input_items = <<>>
    /\ past_changes = <<>>
    /\ coder_result = NoJSOutput
    /\ result = NoEvaluation
    /\ final_screenshot = NoScreenshot
    /\ outcome = NoOutcome
    /\ events = <<>>
    /\ cands = <<>>
    /\ execs = <<>>
    /\ image_list = <<>>
    /\ image_specialist_result = NoImageChange
    /\ new_image_url = Unbound
    /\ uuids = 0
    /\ tempfiles = 0
    /\ accepted = <<>>

InitAppend ==
    /\ \E log \in {<<>>, <<<<"button", "rewritten">>>>},
          ks \in [Writers -> {"text", "image"}],
          ds \in [Writers -> WriterDescriptions],
          indivisible \in BOOLEAN :
          /\ files = IF log = <<>> THEN << >>
                     ELSE [p \in {LogPathOf("text"), LogPathOf("image")} |-> log]
          /\ logAtStart = log
          /\ writers = [w \in Writers |->
                          [pc |-> "accept", path |-> LogPathOf(ks[w]),
                           description |-> ds[w], offset |-> 0,
                           o_append |-> indivisible]]
    /\ call = NoCall
    /\ NoRun

runVars == <<site, runs, kind, pc, text, imgs, viewport, input_items,
             past_changes, coder_result, result, final_screenshot, outcome,
             events, cands, execs, logAtStart, image_list,
             image_specialist_result, new_image_url, uuids, tempfiles, warning>>

\* open(path, "a"): the file is created when it does not exist
AppendOpen(w) ==
    /\ writers[w].pc = "accept"
    /\ files' = IF writers[w].path \in DOMAIN files THEN files
                ELSE WriteFile(files, writers[w].path, <<>>)
    /\ writers' = [writers EXCEPT ![w].pc = "opened"]
    /\ UNCHANGED <<runVars, accepted, call>>

\* f.write(line): the line is in the buffer of f, the file is as it was
AppendWrite(w) ==
    /\ writers[w].pc = "opened"
    /\ writers' = [writers EXCEPT ![w].pc = "buffered"]
    /\ UNCHANGED <<runVars, files, accepted, call>>

\* leaving the with block, the flush being one indivisible append
AppendFlush(w) ==
    /\ writers[w].pc = "buffered"
    /\ writers[w].o_append
    /\ files' = AppendLine(files, writers[w].path, writers[w].description)
    /\ accepted' = Append(accepted, writers[w].description)
    /\ writers' = [writers EXCEPT ![w].pc = "closed"]
    /\ UNCHANGED <<runVars, call>>

\* leaving the with block, first half of a flush that is not indivisible:
\* the end of the file is looked up
AppendSeek(w) ==
    /\ writers[w].pc = "buffered"
    /\ ~writers[w].o_append
    /\ writers' = [writers EXCEPT
                      ![w].pc = "sought",
                      ![w].offset = Len(Bytes(ReadLog(files, writers[w].path)))]
    /\ UNCHANGED <<runVars, files, accepted, call>>

\* second half: the line is written at the offset looked up
AppendPut(w) ==
    /\ writers[w].pc = "sought"
    /\ files' = WriteFile(files, writers[w].path,
                    SplitLines(WriteAt(Bytes(ReadLog(files, writers[w].path)),
                                       writers[w].offset,
                                       writers[w].description \o <<"\n">>),
                               <<>>))
    /\ accepted' = Append(accepted, writers[w].description)
    /\ writers' = [writers EXCEPT ![w].pc = "closed"]
    /\ UNCHANGED <<runVars, call>>

NextAppend ==
    \E w \in Writers :
        \/ AppendOpen(w)
        \/ AppendWrite(w)
        \/ AppendFlush(w)
        \/ AppendSeek(w)
        \/ AppendPut(w)

SpecAppend == InitAppend /\ [][NextAppend]_vars

\* --------------------------------- two text runs on one site at the same time
\* Two text runs on the same URL, each on the thread of its session, are in
\* their loop. Both use f"{site_folder}/script.js" of the same site folder;
\* each has a page, a history and a coder_result of its own. No lock is taken
\* around the loop or around the file.
InitScript ==
    /\ files = << >>
    /\ logAtStart = <<>>
    /\ writers = [w \in Writers |->
                    [pc |-> "t_propose", coder_result |-> NoJSOutput,
                     fails |-> 0, outcome |-> NoOutcome]]
    /\ call = NoCall
    /\ NoRun

\* coder_result = await Runner.run(coder, input_items);
\* open(f"{site_folder}/script.js", "w").write(script)
ScriptPropose(w) ==
    /\ writers[w].pc = "t_propose"
    /\ \E out \in JSOutputs :
         /\ files' = WriteFile(files, ScriptPath(PageUrl), <<out.script>>)
         /\ writers' = [writers EXCEPT ![w].pc = "t_apply",
                                       ![w].coder_result = out]
    /\ UNCHANGED <<runVars, accepted, call>>

\* await page.evaluate(script) and the screenshot, on the page of the run
ScriptApply(w) ==
    /\ writers[w].pc = "t_apply"
    /\ writers' =
          IF ScriptRaises(writers[w].coder_result.script)
          THEN [writers EXCEPT ![w].pc = "aborted",
                               ![w].outcome = [ret |-> "exception"]]
          ELSE [writers EXCEPT ![w].pc = "t_evaluate"]
    /\ UNCHANGED <<runVars, files, accepted, call>>

\* evaluator_result = await Runner.run(evaluator, input_items)
ScriptEvaluate(w) ==
    /\ writers[w].pc = "t_evaluate"
    /\ \E out \in Evaluations :
         /\ out.score = "fail" => writers[w].fails + 1 < MaxIter
         /\ writers' =
               IF Accepts(out)
               THEN [writers EXCEPT ![w].pc = "t_accept"]
               ELSE [writers EXCEPT ![w].pc = TextLoopHead,
                                    ![w].fails = @ + 1]
    /\ UNCHANGED <<runVars, files, accepted, call>>

\* the pass branch: script run once more, final screenshot, log line, return
ScriptAccept(w) ==
    /\ writers[w].pc = "t_accept"
    /\ files' = AppendLine(files, TextLogPath(PageUrl),
                           writers[w].coder_result.change_description)
    /\ accepted' = Append(accepted, writers[w].coder_result.change_description)
    /\ writers' = [writers EXCEPT
                     ![w].pc = "done",
                     ![w].outcome =
                        [ret |-> "dict",
                         description |-> writers[w].coder_result.change_description,
                         script |-> writers[w].coder_result.script]]
    /\ UNCHANGED <<runVars, call>>

NextScript ==
    \E w \in Writers :
        \/ ScriptPropose(w)
        \/ ScriptApply(w)
        \/ ScriptEvaluate(w)
        \/ ScriptAccept(w)

SpecScript == InitScript /\ [][NextScript]_vars

\* ------------------------------------------------- the site folder alone
\* hosts made of up to MaxLabels of the labels "www." and "shop." in front of
\* a domain
HostSamples ==
    { l \o <<d>> : l \in SeqsUpTo({"www.", "shop."}, MaxLabels),
                    d \in {"a.com", "b.org"} }

SiteUrls == { <<"https://">> \o h \o <<"/", "index">> : h \in HostSamples }

\* the folders of two URLs are about to be computed
InitSite ==
    /\ \E u1 \in SiteUrls, u2 \in SiteUrls :
          call = [fn |-> "get_site_folder", args |-> <<u1, u2>>, done |-> FALSE,
                  text_folder |-> <<>>, image_folder |-> <<>>]
    /\ files = << >>
    /\ logAtStart = <<>>
    /\ writers = << >>
    /\ NoRun

\* get_site_folder(url) of the text run and sites_dir of the image run,
\* for both URLs
SiteFolders ==
    /\ call.fn = "get_site_folder"
    /\ ~call.done
    /\ call' = [call EXCEPT
                   !.done = TRUE,
                   !.text_folder = [i \in 1..2 |-> get_site_folder(call.args[i])],
                   !.image_folder = [i \in 1..2 |-> ImageSitesDir(call.args[i])]]
    /\ UNCHANGED <<runVars, files, accepted, writers>>

NextSite == SiteFolders

SpecSite == InitSite /\ [][NextSite]_vars

\* client.images.edit(model="gpt-image-1", image=<the fetched image>,
\* prompt=image_generation_prompt.format(image_specialist_result=
\* image_specialist_result), quality='high', background="transparent"): the
\* request of an iteration, for the selection sel (the result of the image
\* specialist, printed into the prompt) and the history items the run holds
\* at that point
GenerationRequest(sel, items) ==
    [model |-> "gpt-image-1",
     image |-> sel.image_url,
     prompt |-> <<"prompt:">> \o sel.image_url \o sel.change_description,
     quality |-> "high",
     background |-> "transparent"]

\* ------------------------------------------------ the files a run touches
\* files a text run on url opens for writing: script.js, log.txt
TextWrites(url) == {ScriptPath(url), TextLogPath(url)}

\* files a text run on url opens for reading: log.txt, by get_past_changes
TextReads(url) == {TextLogPath(url)}

\* files an image run on url opens for writing when the uuid4 names drawn so
\* far are 1..n: the generated images, the screenshot, the log of img/
ImageWrites(url, n) ==
    {ImageSitesDir(url) \o <<UuidName(k)>> : k \in 1..n}
        \cup {AfterReplacementPath(url), ImageLogPath(url)}

\* files an image run on url opens for reading: the generated image, read
\* back by upload_to_github
ImageReads(url, n) == {ImageSitesDir(url) \o <<UuidName(k)>> : k \in 1..n}

\* --------------------------------------------------- upload_to_github alone
\* The GitHub contents API as the function meets it: a GET on the path
\* answers 200 with the sha of the file when the file exists and 404 when
\* not, unless it is refused (403) or the request raises (0); a PUT creates
\* a new file (201), updates an existing one when its sha is sent (200),
\* rejects an update without sha (422), unless the request raises (0) or
\* the server fails (500).
GetStatus(exists, get) ==
    IF get = "raises" THEN 0
    ELSE IF get = "refused" THEN 403
    ELSE IF exists THEN 200 ELSE 404

PutStatus(exists, sha_sent, put) ==
    IF put = "raises" THEN 0
    ELSE IF put = "fails" THEN 500
    ELSE IF ~exists THEN 201
    ELSE IF sha_sent THEN 200 ELSE 422

\* upload_to_github(file_path, repo_name) is about to be called
InitUpload ==
    /\ \E n \in 1..2, token_set \in BOOLEAN, exists \in BOOLEAN,
          get \in {"answers", "refused", "raises"},
          put \in {"answers", "fails", "raises"} :
          /\ call = [fn |-> "upload_to_github", pc |-> "called",
                     name |-> UuidName(n), token_set |-> token_set,
                     exists |-> exists, get |-> get, put |-> put,
                     get_status |-> 0, sha_sent |-> FALSE, put_status |-> 0,
                     ret |-> Unbound]
          /\ files = WriteFile(<< >>, ImageSitesDir(PageUrl) \o <<UuidName(n)>>,
                               <<"png">>)
    /\ logAtStart = <<>>
    /\ writers = << >>
    /\ NoRun

\* if not github_token: return None; else the file is read and encoded
UploadStart ==
    /\ call.fn = "upload_to_github"
    /\ call.pc = "called"
    /\ call' = IF call.token_set THEN [call EXCEPT !.pc = "get"]
               ELSE [call EXCEPT !.pc = "returned",
                                 !.ret = upload_to_github(call.name, FALSE, 0)]
    /\ UNCHANGED <<runVars, files, accepted, writers>>

\* requests.get(api_url): sha = response.json()['sha'] on 200, else None;
\* if sha: data["sha"] = sha
UploadGet ==
    /\ call.fn = "upload_to_github"
    /\ call.pc = "get"
    /\ LET status == GetStatus(call.exists, call.get)
       IN  call' = [call EXCEPT !.pc = "put",
                                !.get_status = status,
                                !.sha_sent = (status = 200)]
    /\ UNCHANGED <<runVars, files, accepted, writers>>

\* requests.put(api_url, json=data) and the return value
UploadPut ==
    /\ call.fn = "upload_to_github"
    /\ call.pc = "put"
    /\ LET status == PutStatus(call.exists, call.sha_sent, call.put)
       IN  call' = [call EXCEPT
                      !.pc = "returned",
                      !.put_status = status,
                      !.ret = upload_to_github(call.name, call.token_set, status)]
    /\ UNCHANGED <<runVars, files, accepted, writers>>

NextUpload == UploadStart \/ UploadGet \/ UploadPut

SpecUpload == InitUpload /\ [][NextUpload]_vars

\* ------------------------------------------------------------- the caller
\* main(): what the page shows for the outcome o of a run of kind k. An
\* exception is reported with st.error; the image caller tests `if result:`
\* and reports None with st.error; any dict is laid out as the result of the
\* optimization. A dict whose new_image_url or js_code is None is counted as
\* not shown, since st.image / st.code are then handed None.
CallerShowsSuccess(k, o) ==
    /\ o.ret = "dict"
    /\ k = "image" => (o.new_image_url # NoneUrl /\ o.js_code)

\* ------------------------------------------------------- the specification
\* the state before any run, for a page drawn from a set of pages
InitOn(pages) ==
    /\ site \in pages
    /\ files = << >>
    /\ runs = 0
    /\ kind = "none"
    /\ pc = "idle"
    /\ warning = "none"
    /\ writers = << >>
    /\ call = NoCall
    /\ text = OriginalText
    /\ imgs = <<>>
    /\ viewport = InitialViewportHeight
    /\ input_items = <<>>
    /\ past_changes = <<>>
    /\ coder_result = NoJSOutput
    /\ result = NoEvaluation
    /\ final_screenshot = NoScreenshot
    /\ outcome = NoOutcome
    /\ events = <<>>
    /\ cands = <<>>
    /\ execs = <<>>
    /\ logAtStart = <<>>
    /\ image_list = <<>>
    /\ image_specialist_result = NoImageChange
    /\ new_image_url = Unbound
    /\ uuids = 0
    /\ tempfiles = 0
    /\ accepted = <<>>

Init == InitOn(Pages)

Next ==
    \/ TextStart
    \/ TextPropose
    \/ TextApply
    \/ TextObserve
    \/ TextEvaluate
    \/ TextAccept
    \/ ImageStart
    \/ ImagePropose
    \/ ImageFetch
    \/ ImageGenerate
    \/ ImageUpload
    \/ ImageApply
    \/ ImageObserve
    \/ ImageEvaluate

Spec == Init /\ [][Next]_vars

\* the collection of the inventory alone, on pages long enough to be
\* truncated: a few images of every sort followed by a row of eligible ones
InventoryPages ==
    { p \o b : p \in SeqsUpTo(AllImgs, MaxPrefix), b \in SeqsUpTo(BulkImgs, MaxBulk) }

InitInventory == InitOn(InventoryPages)

NextInventory == ImageStart

SpecInventory == InitInventory /\ [][NextInventory]_vars

\* ------------------------------------------- the replacement script alone
\* absolute image URLs http://[www.]a.com/<path>.png whose path is made of
\* up to MaxPath of the pieces "www.", "x" and "X"
UrlSamples ==
    { <<"http://">> \o h \o <<"/">> \o p \o <<".png">> :
        h \in {<<"a.com">>, <<"www.", "a.com">>},
        p \in SeqsUpTo({"www.", "x", "X"}, MaxPath) \ {<<>>} }

\* an image run about to run js_code: the page holds one eligible <img>
\* whose src is a, the image specialist named b, and the generated image
\* was saved and uploaded
InitUrl ==
    \E a \in UrlSamples, b \in UrlSamples :
        LET img == [src |-> a, width |-> 1000, height |-> 800, head |-> 200]
            sel == [image_url |-> b, change_description |-> <<"warmer", "photo">>]
        IN  /\ site = <<img>>
            /\ files = WriteFile(<< >>, ImageSitesDir(PageUrl) \o <<UuidName(1)>>,
                                 <<"png">>)
            /\ runs = 1
            /\ kind = "image"
            /\ pc = "i_apply"
            /\ warning = "none"
            /\ writers = << >>
            /\ call = NoCall
            /\ text = OriginalText
            /\ imgs = <<a>>
            /\ viewport = InitialViewportHeight
            /\ input_items = << [role |-> "user", type |-> "context",
                                 content |-> sel.change_description] >>
            /\ past_changes = <<>>
            /\ coder_result = NoJSOutput
            /\ result = NoEvaluation
            /\ final_screenshot = Screenshot(OriginalText, <<a>>,
                                             InitialViewportHeight)
            /\ outcome = NoOutcome
            /\ events = <<"propose", "fetch_200", "generate", "upload">>
            /\ cands = <<sel>>
            /\ execs = <<>>
            /\ logAtStart = <<>>
            /\ image_list = Inventory(<<img>>)
            /\ image_specialist_result = sel
            /\ new_image_url = RawUrl(UuidName(1))
            /\ uuids = 1
            /\ tempfiles = 0
            /\ accepted = <<>>

NextUrl == ImageApply

SpecUrl == InitUrl /\ [][NextUrl]_vars

\* ------------------------------------------------------------ the claims
SiteLog == ReadLog(files, TextLogPath(PageUrl))

ImageLog == ReadLog(files, ImageLogPath(PageUrl))

IsVerdictEvent(e) == e \in {"pass", "fail", "evaluate_raise"}

RECURSIVE LastVerdict(_)
\* the last evaluator outcome recorded in a history, "none" without one
LastVerdict(ev) ==
    IF ev = <<>> THEN "none"
    ELSE IF IsVerdictEvent(Last(ev)) THEN Last(ev)
    ELSE IF Last(ev) = "propose" THEN "none"
    ELSE LastVerdict(SubSeq(ev, 1, Len(ev) - 1))

\* C1: a Change Log line is written, by a text run or by an image run, only
\* in a step whose run holds a verdict with score "pass", that verdict being
\* the last evaluator outcome of the current iteration (no proposer call and
\* no other verdict lies between it and the write).
C1_AcceptOnlyOnPass ==
    [][ (SiteLog' # SiteLog \/ ImageLog' # ImageLog)
          => /\ result'.score = "pass"
             /\ Last(events') = "log"
             /\ LastVerdict(events') = "pass" ]_vars

\* a run accepted after at least one fail verdict
C1_Witness ==
    /\ pc = "done"
    /\ events # <<>>
    /\ Last(events) = "log"
    /\ CountOf(events, "fail") > 0

C3_ChangeLogIsAcceptedInOrder ==
    [][ IsPrefix(SiteLog, SiteLog') /\ SiteLog' = accepted' ]_vars

\* C4: every change accepted before a text run starts, by a text run or by an
\* image run, is a line of the past changes that text run reads.
C4_PastChangesHoldAllAccepted ==
    (kind = "text" /\ pc = "t_propose" /\ events = <<>>) =>
        \A i \in 1..Len(accepted) :
            \E k \in 1..Len(past_changes) : past_changes[k] = accepted[i]

\* the inventory is the min(10, n) largest of the n images of the page that
\* pass the test ok, in descending order of width*height
InventoryIsTopOf(ok(_)) ==
    LET elig == {i \in 1..Len(site) : ok(site[i])}
        onPage(e) == Cardinality({i \in elig : Entry(site[i]) = e})
        listed(e) == Cardinality({k \in 1..Len(image_list) : image_list[k] = e})
    IN  /\ Len(image_list) = Min(10, Cardinality(elig))
        /\ \A k \in 1..(Len(image_list) - 1) :
               image_list[k].size >= image_list[k + 1].size
        /\ \A k \in 1..Len(image_list) :
               /\ image_list[k].size = image_list[k].width * image_list[k].height
               /\ \E i \in elig : Entry(site[i]) = image_list[k]
        /\ \A i \in elig :
               LET e == Entry(site[i])
               IN  /\ listed(e) <= onPage(e)
                   /\ Cardinality(elig) <= 10 => listed(e) = onPage(e)
                   /\ listed(e) < onPage(e) =>
                          \A k \in 1..Len(image_list) : image_list[k].size >= e.size

\* width>300, height>300, HEAD answers 200, src does not end with ".svg"
\* whatever the case of its letters
EligibleAnyCase(img) ==
    /\ img.width > 300
    /\ img.height > 300
    /\ img.head = 200
    /\ Lower(Last(img.src)) # ".svg"

\* width>300, height>300, HEAD answers 200, src does not end with ".svg"
EligibleExactCase(img) ==
    /\ img.width > 300
    /\ img.height > 300
    /\ img.head = 200
    /\ Last(img.src) # ".svg"

\* C5 (as amended): the inventory of an image run holds the min(10, n)
\* largest of the n images with width>300, height>300, a HEAD answer of 200
\* and a src that does not end with ".svg" in any letter case, ordered by
\* descending width*height; 500x500, 200x200, 1000x800 give
\* [1000x800, 500x500].
C5_InventoryTopEligibleAnyCase ==
    kind = "image" =>
        /\ InventoryIsTopOf(EligibleAnyCase)
        /\ site = <<Promo, Icon, Hero>> =>
               image_list = <<Entry(Hero), Entry(Promo)>>

\* C5 (as claimed): the same with the src test "does not end with .svg".
C5_InventoryTopEligibleExactCase ==
    kind = "image" =>
        /\ InventoryIsTopOf(EligibleExactCase)
        /\ site = <<Promo, Icon, Hero>> =>
               image_list = <<Entry(Hero), Entry(Promo)>>

\* a page with an upper-case SVG, the smallest eligible image and more than
\* ten larger eligible images, whose inventory was cut to ten
C5_Witness ==
    /\ kind = "image"
    /\ Len(site) > 2
    /\ site[1] = Badge
    /\ site[2] = Hosted
    /\ \A k \in 1..Len(image_list) : image_list[k] # Entry(Hosted)
    /\ Len(Collect(site)) > InventoryLimit
    /\ Len(image_list) = InventoryLimit

\* the <img> sources of the page as loaded
LoadedImgs == [i \in 1..Len(site) |-> UrlJoin(PageUrl, site[i].src)]

\* C6: a fetch of the selected image answered with a status other than 200
\* ends the image run in that very step: no file is written, no name drawn
\* for a generated image, no upload result bound, the page, the history and
\* the verdict are untouched, and the next step is the start of another run.
C6_FetchFailureAborts ==
    [][ /\ events' = Append(events, "fetch_404") =>
            /\ pc' = "done"
            /\ files' = files
            /\ uuids' = uuids
            /\ tempfiles' = tempfiles
            /\ new_image_url' = new_image_url
            /\ imgs' = imgs
            /\ input_items' = input_items
            /\ result' = result
            /\ accepted' = accepted
        /\ (events # <<>> /\ Last(events) = "fetch_404") => runs' = runs + 1 ]_vars

\* the first fetch of an image run answered 404
C6_Witness ==
    /\ kind = "image"
    /\ pc = "done"
    /\ events = <<"propose", "fetch_404">>
    /\ new_image_url = Unbound
    /\ outcome.ret = "dict"

\* C7: while the upload of the current attempt yielded no URL, the run takes
\* no further step of that attempt: no <img> source is rewritten, the
\* replacement script is not run, the evaluator is not invoked and no Change
\* Log line is written.
C7_NoUrlAborts ==
    [][ (kind = "image" /\ new_image_url = NoneUrl /\ runs' = runs) =>
            /\ imgs' = imgs
            /\ CountOf(events', "apply") = CountOf(events, "apply")
            /\ CountOf(events', "pass") = CountOf(events, "pass")
            /\ CountOf(events', "fail") = CountOf(events, "fail")
            /\ ImageLog' = ImageLog
            /\ SiteLog' = SiteLog ]_vars

\* C8: when an image run ends accepted, the <img> that was targeted (the
\* first one of the loaded page whose normalized source equals the normalized
\* selected URL) shows the URL the run returns as new_image_url, and the
\* screenshot the evaluator passed shows that same page.
C8_AcceptedImageIsLive ==
    (kind = "image" /\ pc = "done" /\ events # <<>> /\ Last(events) = "log") =>
        LET i == FirstMatch(LoadedImgs, image_specialist_result.image_url, 1)
        IN  /\ i # 0
            /\ imgs[i] = outcome.new_image_url
            /\ final_screenshot.imgs = imgs

\* C9: the page state the evaluator passed in an accepted text run is the
\* originally loaded page with the accepted script alone applied to it.
C9_AcceptedStateFromScriptAlone ==
    (kind = "text" /\ pc = "done" /\ outcome.ret = "dict") =>
        Last(input_items).content.text
            = ExecScript(coder_result.script, OriginalText)

\* C10: applying to the live page the candidate that has just been applied
\* to it changes nothing: a second execution of the script of a text run, or
\* of the replacement of an image run, leaves the page as the first left it.
C10_ApplicatorIdempotent ==
    /\ (kind = "text" /\ pc \in {"t_observe", "t_evaluate", "t_accept"}) =>
           ExecScript(coder_result.script, text) = text
    /\ (kind = "image" /\ pc = "i_wait") =>
           ReplaceImage(imgs, image_specialist_result.image_url, new_image_url)
               = imgs

\* C11: an accepted text run of k iterations has executed exactly k+1
\* scripts: the script of each iteration once, in order, and then the script
\* of the last iteration (the one that was just executed and evaluated) once
\* more; the returned final screenshot shows the page after that last
\* execution, and the log line is written after it.
C11_PassRerunsSameScript ==
    (kind = "text" /\ pc = "done" /\ outcome.ret = "dict") =>
        LET k == Len(cands)
        IN  /\ k = CountOf(events, "propose")
            /\ Len(execs) = k + 1
            /\ \A i \in 1..k : execs[i] = cands[i].script
            /\ execs[k + 1] = cands[k].script
            /\ execs[k + 1] = execs[k]
            /\ outcome.screenshot.text = text
            /\ outcome.screenshot = final_screenshot
            /\ SubSeq(events, Len(events) - 3, Len(events))
                  = <<"pass", "apply", "observe", "log">>

\* a text run accepted in its second iteration, whose two iterations
\* proposed different scripts
C11_Witness ==
    /\ kind = "text"
    /\ pc = "done"
    /\ outcome.ret = "dict"
    /\ Len(cands) = 2
    /\ cands[1].script # cands[2].script
    /\ Len(execs) = 3

\* the events that record a call that raised or a fetch that was refused
FailureEvents ==
    {"propose_raise", "apply_raise", "evaluate_raise", "fetch_404",
     "fetch_raise", "generate_raise", "wait_raise"}

\* the steps of one loop iteration before its verdict, per run kind
IterationSteps(k) ==
    IF k = "text" THEN <<"propose", "apply", "observe">>
    ELSE <<"fetch_200", "generate", "upload", "apply", "observe">>

\* the events recorded after position i up to (excluding) the next verdict
\* or failure
RECURSIVE StepsAfter(_, _)
StepsAfter(ev, i) ==
    IF i >= Len(ev) \/ ev[i + 1] \in {"pass", "fail"} \cup FailureEvents
    THEN <<>>
    ELSE <<ev[i + 1]>> \o StepsAfter(ev, i + 1)

\* every fail verdict recorded so far is followed by the steps of a new
\* iteration, in order, and by the time the run has ended that iteration
\* has reached a new verdict unless one of its calls failed
FailsAreFollowedUp ==
    \A i \in 1..Len(events) :
        events[i] = "fail" =>
            LET steps == StepsAfter(events, i)
                j     == i + Len(steps) + 1
            IN  /\ IsPrefix(steps, IterationSteps(kind))
                /\ j <= Len(events) =>
                       \/ events[j] \in FailureEvents
                       \/ /\ events[j] \in {"pass", "fail"}
                          /\ steps = IterationSteps(kind)
                /\ j > Len(events) => pc \notin {"done", "aborted"}

RECURSIVE TextAfter(_, _)
TextAfter(cs, j) ==
    IF j = 0 THEN OriginalText
    ELSE ExecScript(cs[j].script, TextAfter(cs, j - 1))

\* C13: whenever the proposer of a text run is about to be invoked after n
\* fail verdicts (n >= 1), the history it receives is: the initial context,
\* the initial screenshot, and then for each earlier iteration j = 1..n, in
\* order, the proposer output of iteration j, the result screenshot of
\* iteration j and the feedback of iteration j; the last message is the
\* feedback of the verdict just given.
C13_ProposerSeesFeedbackAndHistory ==
    (kind = "text" /\ pc = "t_propose" /\ Len(cands) >= 1) =>
        LET n == Len(cands)
        IN  /\ n = CountOf(events, "fail")
            /\ Len(input_items) = 2 + 3 * n
            /\ input_items[1] =
                  [role |-> "user", type |-> "context", content |-> past_changes]
            /\ input_items[2].type = "image"
            /\ input_items[2].content.text = OriginalText
            /\ \A j \in 1..n :
                  /\ input_items[3 * j] =
                        [role |-> "assistant", type |-> "output",
                         content |-> cands[j]]
                  /\ input_items[3 * j + 1].type = "image"
                  /\ input_items[3 * j + 1].content.text = TextAfter(cands, j)
                  /\ input_items[3 * j + 1].content.viewport
                        > input_items[IF j = 1 THEN 2 ELSE 3 * j - 2]
                              .content.viewport
                  /\ input_items[3 * j + 2].type = "feedback"
                  /\ input_items[3 * j + 2].role = "user"
            /\ Last(input_items).content = result.feedback
            /\ result.score = "fail"

\* the proposer of a text run about to be invoked for the third time, after
\* two failed iterations with different scripts
C13_Witness ==
    /\ kind = "text"
    /\ pc = "t_propose"
    /\ Len(cands) = 2
    /\ cands[1].script # cands[2].script
    /\ CountOf(events, "fail") = 2

\* C14: within one run, text or image, every step leaves the conversation
\* history either as it was or extended at its end: the history before the
\* step is a prefix of the history after it, so (prefix being transitive) the
\* history of every earlier point of the run is a prefix of that of every
\* later point.
C14_HistoryOnlyGrows ==
    [][ runs' = runs =>
            /\ IsPrefix(input_items, input_items')
            /\ Len(input_items') <= Len(input_items) + 1 ]_vars

\* an image run in its third iteration: the description, three result
\* screenshots and two feedbacks are in the history
C14_Witness ==
    /\ kind = "image"
    /\ pc = "i_evaluate"
    /\ Len(input_items) = 6
    /\ input_items[3].type = "feedback"
    /\ input_items[5].type = "feedback"

\* C15: in an image run the image specialist is invoked once, as the first
\* step and before the loop: no later step of the run records a proposal or
\* changes the selected image URL or the change description, and every
\* retry after a fail verdict consists of the steps of the image applicator
\* (fetch, generate, upload, replace), the observation and the evaluation,
\* carried out for that same selection.
C15_ImageProposedOnce ==
    [][ (kind' = "image" /\ runs' = runs) =>
            /\ pc # "i_propose" =>
                   /\ image_specialist_result' = image_specialist_result
                   /\ cands' = cands
            /\ \A i \in 2..Len(events') :
                   events'[i] \notin {"propose", "propose_raise"}
            /\ Len(cands') <= 1
            /\ \A i \in 1..Len(events') :
                   events'[i] = "fail" =>
                       IsPrefix(StepsAfter(events', i), IterationSteps("image"))
            /\ (pc' = "done" /\ cands' # <<>>) =>
                   /\ outcome'.original_image_url = cands'[1].image_url
                   /\ outcome'.description = cands'[1].change_description ]_vars

\* an image run about to replace the image a second time, after one fail
C15_Witness ==
    /\ kind = "image"
    /\ pc = "i_apply"
    /\ CountOf(events, "fail") = 1
    /\ CountOf(events, "propose") = 1
    /\ CountOf(events, "apply") = 1

\* the URLs of the inventory shown to the image specialist in this run
InventoryUrls == {image_list[i].src : i \in 1..Len(image_list)}

\* C16: once an image run has gone past the image specialist (it fetches,
\* generates, uploads, replaces), the URL it works on is one of the at most
\* 10 URLs of the inventory of that run; an output naming any other URL is
\* not taken into the loop.
C16_AppliedUrlIsFromInventory ==
    (kind = "image" /\ \E i \in 1..Len(events) :
                          events[i] \in {"fetch_200", "fetch_404", "fetch_raise"}) =>
        /\ Len(image_list) <= InventoryLimit
        /\ image_specialist_result.image_url \in InventoryUrls

\* C17: a step in which a wait condition of the browser times out does not
\* end the run, in a text run nor in an image run: after the warning the
\* run is still in progress, nothing has been returned to the caller, and
\* its next step is the one that follows the wait.
C17_WaitTimeoutNeverAborts ==
    [][ warning' = WaitTimeout =>
            /\ pc' \notin {"done", "aborted"}
            /\ outcome' = NoOutcome
            /\ kind' = "text" => pc' = "t_propose"
            /\ kind' = "image" => pc' = "i_evaluate" ]_vars

\* the events of an agent invocation that produced no structured output
AgentRaised == {"propose_raise", "evaluate_raise"}

\* C18: the step in which a proposer or evaluator invocation fails to give
\* structured output ends the run: it writes no file, the run has logged
\* no Change Log line and has nothing accepted, and the only step that can
\* follow is the start of another run, so no agent is invoked again in the
\* run.
C18_MalformedOutputAborts ==
    [][ /\ (events' # events /\ events' # <<>>
              /\ Last(events') \in AgentRaised) =>
              /\ pc' \in {"done", "aborted"}
              /\ files' = files
              /\ accepted' = accepted
              /\ CountOf(events', "log") = 0
              /\ CountOf(events', "propose_raise")
                    + CountOf(events', "evaluate_raise") = 1
        /\ (events # <<>> /\ Last(events) \in AgentRaised) =>
              runs' = runs + 1 ]_vars

\* an image run whose evaluator gave a fail and then, in the second
\* iteration, no structured output
C18_Witness ==
    /\ kind = "image"
    /\ pc = "done"
    /\ CountOf(events, "fail") = 1
    /\ Last(events) = "evaluate_raise"
    /\ ImageLog = <<>>

\* C19: the step by which a run aborts (a call raised or the fetch was
\* refused) hands the caller an outcome it does not present as a successful
\* optimization, and leaves the page and the files as they were before the
\* step.
C19_AbortSurfacesToCaller ==
    [][ (events' # events /\ events' # <<>>
          /\ Last(events') \in FailureEvents) =>
            /\ pc' \in {"done", "aborted"}
            /\ ~CallerShowsSuccess(kind', outcome')
            /\ files' = files
            /\ imgs' = imgs
            /\ text' = text ]_vars

\* a URL without a leading "www." of its host
StripHostWww(u) ==
    IF Len(u) >= 2 /\ u[2] = "www." THEN <<u[1]>> \o SubSeq(u, 3, Len(u))
    ELSE u

\* C20: on a page with a single <img>, the replacement script rewrites the
\* source of that <img> exactly when its URL and the selected URL are
\* identical after a leading "www." of the host has been removed from each:
\* paths are compared piece by piece (case kept), and URLs that differ
\* elsewhere, a "www." inside the path included, are not matched.
C20_MatchIffEqualUpToHostWww ==
    (kind = "image" /\ pc = "i_wait" /\ Len(site) = 1
       /\ CountOf(events, "apply") = 1 /\ new_image_url # NoneUrl) =>
        ( imgs[1] = new_image_url
            <=> StripHostWww(LoadedImgs[1])
                  = StripHostWww(Href(image_specialist_result.image_url)) )

\* C21: when two runs that write the same log file have both written their
\* line, the file holds what it held before followed by the two lines, whole
\* and one after the other, in one order or the other.
C21_ConcurrentAppendsSerialized ==
    (/\ \A w \in Writers : writers[w].pc = "closed"
     /\ writers[1].path = writers[2].path) =>
        LET log == ReadLog(files, writers[1].path)
            d1  == writers[1].description
            d2  == writers[2].description
        IN  \/ log = logAtStart \o <<d1, d2>>
            \/ log = logAtStart \o <<d2, d1>>

\* the steps of a text run
TextLoopSteps == {"t_propose", "t_apply", "t_observe", "t_evaluate"}

\* C22: the text loop has no cap of its own. Whatever the number of fail
\* verdicts, a text run that has had no pass verdict and no raising call is
\* still inside the loop, has made one iteration per verdict, has returned
\* nothing and has written no log line; a text run that has ended did so
\* on a pass verdict (the log line being its last step) or on a call that
\* raised, and a pass verdict or a raise does end it.
C22_TextLoopUncapped ==
    kind = "text" =>
        LET fails  == CountOf(events, "fail")
            passed == CountOf(events, "pass") > 0
            raised == \E i \in 1..Len(events) : events[i] \in FailureEvents
        IN  /\ (~passed /\ ~raised) =>
                  /\ pc \in TextLoopSteps
                  /\ Len(cands) \in {fails, fails + 1}
                  /\ Len(cands) = fails <=> pc = "t_propose"
                  /\ outcome = NoOutcome
            /\ ~passed => SiteLog = logAtStart
            /\ pc \in {"done", "aborted"} <=>
                  ((events # <<>> /\ Last(events) = "log") \/ raised)
            /\ passed => pc \in {"t_accept", "done"}
            /\ raised => pc = "aborted"

\* a text run that got as many fail verdicts as the evaluator may give here
\* and is about to be evaluated once more
C22_Witness ==
    /\ kind = "text"
    /\ pc = "t_evaluate"
    /\ CountOf(events, "fail") = MaxIter - 1
    /\ Len(cands) = MaxIter
    /\ SiteLog = logAtStart

\* a host without a leading "www."
StripLeadingWww(host) ==
    IF host # <<>> /\ Head(host) = "www." THEN Tail(host) ELSE host

\* C23: the folder of a site is sites/<host without a leading "www.">: for
\* each URL the image run works in the img folder below the folder of the
\* text run, and two URLs have the same folder exactly when their hosts are
\* equal once a leading "www." is removed from each.
C23_SiteKeyIsHostWithoutLeadingWww ==
    (call.fn = "get_site_folder" /\ call.done) =>
        /\ \A i \in 1..2 :
              /\ call.image_folder[i] = call.text_folder[i] \o <<"img">>
              /\ call.text_folder[i]
                    = <<"sites">> \o StripLeadingWww(Netloc(call.args[i]))
        /\ call.text_folder[1] = call.text_folder[2]
              <=> StripLeadingWww(Netloc(call.args[1]))
                    = StripLeadingWww(Netloc(call.args[2]))

\* C24: throughout a text run the past changes are the content the Change
\* Log of the site had when the run started (empty when there was no file),
\* they are the content of the first message of the history, hence of the
\* first proposer input, and until the run appends its own line the Change
\* Log is still what it was at the start: reading it changed nothing.
C24_PastChangesAreLogAtStart ==
    (kind = "text" /\ pc # "idle") =>
        /\ past_changes = logAtStart
        /\ input_items # <<>>
        /\ input_items[1] =
              [role |-> "user", type |-> "context", content |-> logAtStart]
        /\ CountOf(events, "log") = 0 => SiteLog = logAtStart
        /\ CountOf(events, "log") = 1 =>
              SiteLog = Append(logAtStart, coder_result.change_description)
        /\ (TextLogPath(PageUrl) \notin DOMAIN files) => past_changes = <<>>

\* a text run about to make its first proposer call on a site whose Change
\* Log holds the line of an earlier accepted text run
C24_Witness ==
    /\ kind = "text"
    /\ pc = "t_propose"
    /\ events = <<>>
    /\ Len(SiteLog) = 1
    /\ past_changes = SiteLog

\* C25: in a text run every evaluator invocation (verdict or failure of the
\* evaluator) comes right after one proposer invocation, one script
\* execution and one screenshot, in that order, which themselves come at
\* the start of the run or right after a fail verdict; and what the
\* evaluator is given last is a screenshot of the page as the script of
\* that iteration's proposer output left it.
C25_TextIterationOrder ==
    kind = "text" =>
        /\ \A i \in 1..Len(events) :
              events[i] \in {"pass", "fail", "evaluate_raise"} =>
                  /\ i >= 4
                  /\ SubSeq(events, i - 3, i - 1) = IterationSteps("text")
                  /\ i > 4 => events[i - 4] = "fail"
        /\ pc = "t_evaluate" =>
              /\ SubSeq(events, Len(events) - 2, Len(events))
                    = IterationSteps("text")
              /\ Len(execs) = Len(cands)
              /\ Last(execs) = coder_result.script
              /\ Last(cands) = coder_result
              /\ Last(input_items).type = "image"
              /\ Last(input_items).content.text = text
              /\ text = TextAfter(cands, Len(cands))

\* a text run about to be evaluated in its second iteration, with two
\* different scripts
C25_Witness ==
    /\ kind = "text"
    /\ pc = "t_evaluate"
    /\ events = <<"propose", "apply", "observe", "fail",
                  "propose", "apply", "observe">>
    /\ cands[1].script # cands[2].script
    /\ text # OriginalText

\* the events of a call that raised inside the image loop
ImageLoopRaises ==
    {"fetch_raise", "generate_raise", "wait_raise", "evaluate_raise"}

\* C26: in an image run a call that raised inside the loop is the last
\* thing the loop did: the run is over, the function has returned its
\* dictionary, no generation, upload, replacement or evaluation came after
\* it and the run has written no Change Log line.
C26_ImageLoopExceptionEndsLoop ==
    kind = "image" =>
        \A i \in 1..Len(events) :
            events[i] \in ImageLoopRaises =>
                /\ i = Len(events)
                /\ pc = "done"
                /\ outcome.ret = "dict"
                /\ CountOf(events, "log") = 0
                /\ CountOf(events, "pass") = 0

\* an image run whose second generation attempt raised, after a fail
C26_Witness ==
    /\ kind = "image"
    /\ pc = "done"
    /\ CountOf(events, "fail") = 1
    /\ CountOf(events, "generate") = 1
    /\ Last(events) = "generate_raise"

\* s occurs in t as a run of consecutive elements
IsInfix(s, t) ==
    \E j \in 0..(Len(t) - Len(s)) : SubSeq(t, j + 1, j + Len(s)) = s

\* C27: when an image run generates again after a fail verdict, the request
\* it sends to the image-generation service contains the feedback of that
\* verdict and differs from the request of the iteration before (the one
\* sent when the history lacked the last screenshot and feedback).
C27_GenerationVariedByFeedback ==
    (kind = "image" /\ pc = "i_generate" /\ CountOf(events, "fail") >= 1) =>
        LET now    == GenerationRequest(image_specialist_result, input_items)
            before == GenerationRequest(image_specialist_result,
                          SubSeq(input_items, 1, Len(input_items) - 2))
        IN  /\ Last(input_items).type = "feedback"
            /\ IsInfix(Last(input_items).content, now.prompt)
            /\ now # before

\* the <img> at position j of page im has the normalized source of target
Matches(im, j, target) ==
    NormalizeUrl(Href(im[j])) = NormalizeUrl(Href(target))

\* C28: the step that runs the replacement script changes the source of at
\* most one <img>: if some <img> matches the selected URL, the first one in
\* document order gets the new URL and no other element changes; if none
\* matches, the page is as before; in both cases the texts are untouched
\* and the run goes on to the waits.
C28_AtMostFirstMatchRewritten ==
    [][ (pc = "i_apply" /\ pc' # "i_apply") =>
            LET target  == image_specialist_result.image_url
                matches == {j \in 1..Len(imgs) : Matches(imgs, j, target)}
                changed == {j \in 1..Len(imgs) : imgs'[j] # imgs[j]}
            IN  /\ Len(imgs') = Len(imgs)
                /\ text' = text
                /\ pc' = "i_wait"
                /\ Cardinality(changed) <= 1
                /\ matches = {} => imgs' = imgs
                /\ matches # {} =>
                      LET first == CHOOSE j \in matches :
                                       \A k \in matches : j <= k
                      IN  /\ imgs'[first] = Href(new_image_url)
                          /\ changed \subseteq {first} ]_vars

\* a page with the same image twice after the replacement: the first shows
\* the uploaded image, the second still the original
C28_Witness ==
    /\ kind = "image"
    /\ pc = "i_wait"
    /\ Len(imgs) = 2
    /\ LoadedImgs[1] = LoadedImgs[2]
    /\ imgs[1] = new_image_url
    /\ imgs[2] = LoadedImgs[2]
    /\ new_image_url # NoneUrl

\* the paths whose content a step creates or changes
Written == {p \in DOMAIN files' : p \notin DOMAIN files \/ files'[p] # files[p]}

\* C29: a text run and an image run on the same site touch disjoint files,
\* the Change Log left aside: every step of a text run writes only files a
\* text run writes, every step of an image run only files an image run
\* writes, and apart from the Change Log no file is written by both kinds
\* of run, nor read by one and written by the other.
C29_OnlyChangeLogShared ==
    [][ LET log == TextLogPath(PageUrl)
            tw  == TextWrites(PageUrl)
            tr  == TextReads(PageUrl)
            iw  == ImageWrites(PageUrl, uuids')
            ir  == ImageReads(PageUrl, uuids')
        IN  /\ kind' = "text" => Written \subseteq tw
            /\ kind' = "image" => Written \subseteq iw
            /\ (tw \cap iw) \subseteq {log}
            /\ (tr \cap iw) \subseteq {log}
            /\ (ir \cap tw) \subseteq {log} ]_vars

\* a text run and an image run have both left their files on the site
C29_Witness ==
    /\ runs = 2
    /\ ScriptPath(PageUrl) \in DOMAIN files
    /\ AfterReplacementPath(PageUrl) \in DOMAIN files
    /\ (ImageSitesDir(PageUrl) \o <<UuidName(1)>>) \in DOMAIN files

C31_EmptyInventoryEndsRun ==
    [][/\ (kind' = "image" /\ runs' = runs + 1 /\ Inventory(site) = <<>>) =>
             /\ pc' = "done"
             /\ outcome' = [ret |-> "none"]
             /\ events' = <<"no_images">>
             /\ image_specialist_result' = NoImageChange
             /\ new_image_url' = Unbound
             /\ files' = files
             /\ tempfiles' = tempfiles
             /\ uuids' = uuids
             /\ accepted' = accepted
       /\ (kind = "image" /\ events = <<"no_images">>) => runs' = runs + 1
      ]_vars

\* an image run on a page without eligible image has ended, after a text
\* run that left files under sites/
C31_Witness ==
    /\ kind = "image"
    /\ runs = 2
    /\ Inventory(site) = <<>>
    /\ events = <<"no_images">>
    /\ outcome = [ret |-> "none"]
    /\ files # << >>

\* C32: in a text run every screenshot handed to an agent, and the final
\* screenshot, is taken with the viewport height of the first screenshot of
\* the run.
C32_SameViewportAtEveryScreenshot ==
    (kind = "text" /\ Len(input_items) >= 2) =>
        /\ \A i \in 2..Len(input_items) :
              input_items[i].type = "image" =>
                 input_items[i].content.viewport
                    = input_items[2].content.viewport
        /\ final_screenshot # NoScreenshot =>
              final_screenshot.viewport = input_items[2].content.viewport

\* C33: at the step by which a text run ends accepted, script.js of the site
\* holds exactly the script that run returns, the one whose description it
\* logs, whatever another text run on the same site does meanwhile.
C33_ScriptFileIsAcceptedScript ==
    [][\A w \in Writers :
          (writers[w].pc = "t_accept" /\ writers'[w].pc = "done") =>
              /\ ScriptPath(PageUrl) \in DOMAIN files'
              /\ files'[ScriptPath(PageUrl)] = <<writers'[w].outcome.script>>
              /\ Last(files'[TextLogPath(PageUrl)])
                    = writers'[w].outcome.description
      ]_vars

\* C34: between the steps of the image runs no temporary PNG file exists:
\* every path by which an iteration ends (verdict given, loop left by break,
\* generation call raising) has deleted the file the iteration created.
C34_NoTempFileRemains ==
    kind \in {"none", "text", "image"} => tempfiles = 0

====
